---- MODULE Spec2Model ----
(***************************************************************************)
(* Model of the OBJ loader of src/src/lib.rs: load_obj_buf and the         *)
(* functions it calls (parse_floatn, VertexIndices::parse, parse_face,     *)
(* add_vertex, export_faces).                                              *)
(*                                                                         *)
(* One action consumes one line of the reader.  A line is its leading      *)
(* keyword plus the remaining items of line.trim().split(' ').  A float    *)
(* word is abstracted to what f32::from_str makes of it (a value, or an    *)
(* error), with the empty word kept apart because parse_floatn tests for   *)
(* it.  A face word is the list of its '/'-separated fields, each field    *)
(* being empty, a decimal isize, or something isize::from_str rejects.     *)
(***************************************************************************)
EXTENDS Integers, Sequences, FiniteSets, TLC

(* ------------------------------ bounds ------------------------------- *)
\* usize is modelled with UsizeBits bits (the target has 64).
UsizeBits == 16
\* v, vt, vn and f records accepted over the whole input
MaxRecs == 4

UsizeMod == 2 ^ UsizeBits

(* --------------------------- input alphabet -------------------------- *)
\* words of a v / vt / vn record
Num(x) == [t |-> "num", x |-> x]
EmptyWord == [t |-> "empty", x |-> 0]
BadWord == [t |-> "bad", x |-> 0]

\* fields of a face word
I(n) == [k |-> "int", x |-> n]
E == [k |-> "empty", x |-> 0]
B == [k |-> "bad", x |-> 0]

\* The words of the record that would add element number c (0-based) to a raw
\* buffer: the elements of one buffer all differ.
VWords(c) ==
  { <<Num(10 * c + 1), Num(10 * c + 2), Num(10 * c + 3)>>,
    <<Num(10 * c + 1), EmptyWord, Num(10 * c + 2), Num(10 * c + 3)>>,  \* "v 1  2 3"
    <<Num(10 * c + 1), Num(10 * c + 2)>>,
    <<Num(10 * c + 1), Num(10 * c + 2), Num(10 * c + 3), Num(10 * c + 4)>>,
    <<Num(10 * c + 1), BadWord, Num(10 * c + 3)>> }

VtWords(c) ==
  { <<Num(10 * c + 5), Num(10 * c + 6)>>,
    <<Num(10 * c + 5)>>,
    <<Num(10 * c + 5), Num(10 * c + 6), Num(10 * c + 7)>>,
    <<BadWord, Num(10 * c + 6)>> }

VnWords(c) ==
  { <<Num(10 * c + 7), Num(10 * c + 8), Num(10 * c + 9)>>,
    <<Num(10 * c + 7), Num(10 * c + 8)>>,
    <<Num(10 * c + 7), Num(10 * c + 8), Num(10 * c + 9), Num(10 * c)>>,
    <<Num(10 * c + 7), Num(10 * c + 8), BadWord>> }

FWords ==
  { << <<I(1), I(1)>>, <<I(-1), I(-1)>>, <<I(-1), E, I(-1)>> >>, \* f 1/1 -1/-1 -1//-1
    << <<I(1)>>, <<I(1), I(2)>>, <<I(-1), E, I(2)>>,
       <<I(1), I(2), I(2)>> >>,                                   \* f 1 1/2 -1//2 1/2/2
    << <<I(1)>>, <<I(-1)>>, <<I(1)>> >>,                          \* f 1 -1 1
    << <<I(1)>>, <<E>>, <<I(2)>> >>,                              \* "f 1  2"
    << <<I(1)>>, <<I(2)>> >>,                                     \* f 1 2
    << <<I(1)>>, <<B>>, <<I(2)>> >>,                              \* f 1 x 2
    << <<I(1)>>, <<I(2)>>, <<I(1)>>, <<I(2)>>, <<I(1)>> >>,       \* five vertices
    << <<I(1)>>, <<I(2)>>, <<I(1), I(1), I(1), I(1)>> >>,         \* f 1 2 1/1/1/1
    << <<I(1)>>, <<I(2)>>, <<I(1), I(1), I(1), I(-1)>> >> }       \* f 1 2 1/1/1/-1

\* words after "o": none, a name, or an empty item first ("o  a")
OWords == { <<>>, <<"a">>, <<"", "a">> }

(* ------------------------------ state -------------------------------- *)
VARIABLES
  models,        \* Vec<Model>: [name, mesh] (+ faces: the faces it was built from)
  tmp_pos,       \* Vec<f32>
  tmp_texcoord,  \* Vec<f32>
  tmp_normal,    \* Vec<f32>
  tmp_faces,     \* Vec<Face>
  name,          \* String
  result         \* "running", "Ok", a LoadError, or a panic with its place

vars == <<models, tmp_pos, tmp_texcoord, tmp_normal, tmp_faces, name, result>>

(* --------------------------- parse_floatn ---------------------------- *)
RECURSIVE PushFloats(_, _)
PushFloats(val_str, vals) ==
  IF val_str = <<>> THEN [ok |-> TRUE, vals |-> vals]
  ELSE LET p == Head(val_str) IN
       IF p.t = "empty" THEN PushFloats(Tail(val_str), vals)
       ELSE IF p.t = "num" THEN PushFloats(Tail(val_str), Append(vals, p.x))
       ELSE [ok |-> FALSE, vals |-> vals]

parse_floatn(val_str, vals, n) ==
  LET r == PushFloats(val_str, vals)
  IN  [ok |-> r.ok /\ Len(vals) + n = Len(r.vals), vals |-> r.vals]

(* ------------------------ VertexIndices::parse ----------------------- *)
\* `as usize` of an isize
AsUsize(x) == x % UsizeMod

\* relative indices all counted from the end of the positions
ResolveField_pos(i, x, pos_sz, tex_sz, norm_sz) ==
  IF x < 0 THEN AsUsize(x + pos_sz) ELSE AsUsize(x - 1)

\* the value stored for field number i (0-based) holding the integer x
ResolveField(i, x, pos_sz, tex_sz, norm_sz) ==
  IF x < 0
  THEN CASE i = 0 -> AsUsize(x + pos_sz)
         [] i = 1 -> AsUsize(x + tex_sz)
         [] i = 2 -> AsUsize(x + norm_sz)
  ELSE AsUsize(x - 1)

\* the loop over face_str.split('/').enumerate(): st is "Some", "None" or "panic"
RECURSIVE ParseFields(_, _, _, _, _, _)
ParseFields(fields, i, indices, pos_sz, tex_sz, norm_sz) ==
  IF fields = <<>> THEN [st |-> "Some", indices |-> indices]
  ELSE LET f == Head(fields) IN
       IF f.k = "empty"
       THEN ParseFields(Tail(fields), i + 1, indices, pos_sz, tex_sz, norm_sz)
       ELSE IF f.k = "bad" THEN [st |-> "None", indices |-> indices]
       ELSE IF i > 2 THEN [st |-> "panic", indices |-> indices]
       ELSE ParseFields(Tail(fields), i + 1,
                        [indices EXCEPT ![i + 1] =
                            ResolveField(i, f.x, pos_sz, tex_sz, norm_sz)],
                        pos_sz, tex_sz, norm_sz)

VertexIndices_parse(face_str, pos_sz, tex_sz, norm_sz) ==
  LET r == ParseFields(face_str, 0, <<0, 0, 0>>, pos_sz, tex_sz, norm_sz)
  IN  [st |-> r.st,
       vi |-> [v |-> r.indices[1], vt |-> r.indices[2], vn |-> r.indices[3]]]

(* ----------------------------- parse_face ---------------------------- *)
\* the loop over the words of the record: st is "ok", "fail" or "panic"
RECURSIVE ParseVerts(_, _, _, _, _)
ParseVerts(face_str, indices, pos_sz, tex_sz, norm_sz) ==
  IF face_str = <<>> THEN [st |-> "ok", indices |-> indices]
  ELSE LET r == VertexIndices_parse(Head(face_str), pos_sz, tex_sz, norm_sz) IN
       IF r.st = "Some"
       THEN ParseVerts(Tail(face_str), Append(indices, r.vi), pos_sz, tex_sz, norm_sz)
       ELSE IF r.st = "None" THEN [st |-> "fail", indices |-> indices]
       ELSE [st |-> "panic", indices |-> indices]

\* A Face carries, next to its vertices, the words it was parsed from and the
\* element counts at that time (src, cnt: history, read by no operation).
parse_face(face_str, faces, pos_sz, tex_sz, norm_sz) ==
  LET r == ParseVerts(face_str, <<>>, pos_sz, tex_sz, norm_sz)
      hist == [src |-> face_str, cnt |-> <<pos_sz, tex_sz, norm_sz>>]
  IN  IF r.st # "ok" THEN [st |-> r.st, faces |-> faces]
      ELSE IF Len(r.indices) = 3
      THEN [st |-> "ok",
            faces |-> Append(faces, [kind |-> "Triangle", vs |-> r.indices] @@ hist)]
      ELSE IF Len(r.indices) = 4
      THEN [st |-> "ok",
            faces |-> Append(faces, [kind |-> "Quad", vs |-> r.indices] @@ hist)]
      ELSE [st |-> "fail", faces |-> faces]

(* ----------------------------- add_vertex ----------------------------- *)
\* a * b on usize: ovf tells whether the product leaves the usize range (a build
\* with overflow checks panics there, a build without them wraps)
MulUsize(a, b) == [ovf |-> a * b >= UsizeMod, val |-> (a * b) % UsizeMod]
AddUsize(a, b) == [ovf |-> a + b >= UsizeMod, val |-> (a + b) % UsizeMod]

\* dst.push(src[i * n]); ...; dst.push(src[i * n + n - 1]), k pushes done so far.
\* checks: whether the build has overflow checks.  Indexing past the end panics.
RECURSIVE PushElems(_, _, _, _, _, _)
PushElems(dst, src, i, n, k, checks) ==
  IF k = n THEN [panic |-> FALSE, vals |-> dst]
  ELSE LET m == MulUsize(i, n)
           a == AddUsize(m.val, k)
       IN  IF checks /\ (m.ovf \/ a.ovf) THEN [panic |-> TRUE, vals |-> dst]
           ELSE IF a.val >= Len(src) THEN [panic |-> TRUE, vals |-> dst]
           ELSE PushElems(Append(dst, src[a.val + 1]), src, i, n, k + 1, checks)

EmptyMap == [k \in {} |-> 0]

\* a lookup that never finds the vertex
index_map_get_none(index_map, vert) == [some |-> FALSE, i |-> 0]

\* index_map.get(vert)
index_map_get(index_map, vert) ==
  IF vert \in DOMAIN index_map
  THEN [some |-> TRUE, i |-> index_map[vert]]
  ELSE [some |-> FALSE, i |-> 0]

\* indices counted from 1
NextIndex_off(index_map) == Cardinality(DOMAIN index_map) + 1

\* index_map.len() as u32
NextIndex(index_map) == Cardinality(DOMAIN index_map)

\* the emptiness test the wrong way round
Copies_inverted(raw) == raw = <<>>

\* whether add_vertex copies from a raw buffer: !texcoord.is_empty(), !normal.is_empty()
Copies(raw) == raw # <<>>

\* s = [mesh, index_map, panic]; a call after a panic never happens
add_vertex(s, vert, pos, texcoord, normal, checks) ==
  IF s.panic THEN s
  ELSE IF index_map_get(s.index_map, vert).some
  THEN [s EXCEPT !.mesh.indices = Append(@, index_map_get(s.index_map, vert).i)]
  ELSE LET p == PushElems(s.mesh.positions, pos, vert.v, 3, 0, checks)
           t == IF Copies(texcoord)
                THEN PushElems(s.mesh.texcoords, texcoord, vert.vt, 2, 0, checks)
                ELSE [panic |-> FALSE, vals |-> s.mesh.texcoords]
           n == IF Copies(normal)
                THEN PushElems(s.mesh.normals, normal, vert.vn, 3, 0, checks)
                ELSE [panic |-> FALSE, vals |-> s.mesh.normals]
           next == NextIndex(s.index_map)
       IN  IF p.panic THEN [s EXCEPT !.panic = TRUE, !.mesh.positions = p.vals]
           ELSE IF t.panic
           THEN [s EXCEPT !.panic = TRUE, !.mesh.positions = p.vals,
                          !.mesh.texcoords = t.vals]
           ELSE IF n.panic
           THEN [s EXCEPT !.panic = TRUE, !.mesh.positions = p.vals,
                          !.mesh.texcoords = t.vals, !.mesh.normals = n.vals]
           ELSE [panic |-> FALSE,
                 mesh |-> [positions |-> p.vals, texcoords |-> t.vals,
                           normals |-> n.vals,
                           indices |-> Append(s.mesh.indices, next)],
                 index_map |-> [k \in DOMAIN s.index_map \cup {vert} |->
                                   IF k = vert THEN next ELSE s.index_map[k]]]

(* ---------------------------- export_faces --------------------------- *)
Mesh_empty == [positions |-> <<>>, normals |-> <<>>, texcoords |-> <<>>, indices |-> <<>>]

\* a quad split into (a, b, c) and (b, c, d)
FaceVerts_bcd(f) ==
  IF f.kind = "Triangle" THEN <<f.vs[1], f.vs[2], f.vs[3]>>
  ELSE <<f.vs[1], f.vs[2], f.vs[3], f.vs[2], f.vs[3], f.vs[4]>>

\* the vertices handed to add_vertex for one face, in call order
FaceVerts(f) ==
  IF f.kind = "Triangle" THEN <<f.vs[1], f.vs[2], f.vs[3]>>
  ELSE <<f.vs[1], f.vs[2], f.vs[3], f.vs[1], f.vs[3], f.vs[4]>>

RECURSIVE AddVerts(_, _, _, _, _, _)
AddVerts(s, verts, pos, texcoord, normal, checks) ==
  IF verts = <<>> THEN s
  ELSE AddVerts(add_vertex(s, Head(verts), pos, texcoord, normal, checks),
                Tail(verts), pos, texcoord, normal, checks)

RECURSIVE ExportLoop(_, _, _, _, _, _)
ExportLoop(s, faces, pos, texcoord, normal, checks) ==
  IF faces = <<>> THEN s
  ELSE ExportLoop(AddVerts(s, FaceVerts(Head(faces)), pos, texcoord, normal, checks),
                  Tail(faces), pos, texcoord, normal, checks)

\* [mesh, index_map, panic]: the mesh returned, unless panic
export_faces(pos, texcoord, normal, faces, checks) ==
  ExportLoop([mesh |-> Mesh_empty, index_map |-> EmptyMap, panic |-> FALSE],
             faces, pos, texcoord, normal, checks)

\* Model::new.  hist is history, read by no operation: the face list the mesh was
\* exported from, the index_map the export ended with, and the element counts of
\* the raw buffers at the export
Model_new(mesh, n, hist) == [mesh |-> mesh, name |-> n] @@ hist

(* ---------------------------- load_obj_buf --------------------------- *)
RECURSIVE SumFaces(_)
SumFaces(ms) == IF ms = <<>> THEN 0 ELSE Len(Head(ms).faces) + SumFaces(Tail(ms))
\* the v, vt, vn and f records accepted so far
Recs ==
  Len(tmp_pos) \div 3 + Len(tmp_texcoord) \div 2 + Len(tmp_normal) \div 3
    + Len(tmp_faces) + SumFaces(models)

\* the element counts handed to parse_face
Counts == <<Len(tmp_pos) \div 3, Len(tmp_texcoord) \div 2, Len(tmp_normal) \div 3>>

ExportHist(e) == [faces |-> tmp_faces, index_map |-> e.index_map, cnt |-> Counts]

Init ==
  /\ models = <<>>
  /\ tmp_pos = <<>>
  /\ tmp_texcoord = <<>>
  /\ tmp_normal = <<>>
  /\ tmp_faces = <<>>
  /\ name = ""
  /\ result = "running"

\* Some("#"), Some("g"), Some("mtllib"), Some("usemtl"): a println only
LineComment == result = "running" /\ UNCHANGED vars
LineG == result = "running" /\ UNCHANGED vars
LineMtllib == result = "running" /\ UNCHANGED vars
LineUsemtl == result = "running" /\ UNCHANGED vars
\* Some(c): any other first item, the "" of an empty line included (the None arm
\* is never taken: split always yields a first item)
LineOther == result = "running" /\ UNCHANGED vars

\* Err(e) from reader.lines()
LineReadError ==
  /\ result = "running"
  /\ result' = "ReadError"
  /\ UNCHANGED <<models, tmp_pos, tmp_texcoord, tmp_normal, tmp_faces, name>>

\* Some("v") followed by words
LineVWith(words) ==
  /\ result = "running"
  /\ LET r == parse_floatn(words, tmp_pos, 3) IN
       /\ tmp_pos' = r.vals
       /\ result' = IF r.ok THEN "running" ELSE "PositionParseError"
  /\ UNCHANGED <<models, tmp_texcoord, tmp_normal, tmp_faces, name>>

LineV == Recs < MaxRecs /\ \E words \in VWords(Counts[1]) : LineVWith(words)

\* Some("vt") followed by words
LineVtWith(words) ==
  /\ result = "running"
  /\ LET r == parse_floatn(words, tmp_texcoord, 2) IN
       /\ tmp_texcoord' = r.vals
       /\ result' = IF r.ok THEN "running" ELSE "TexcoordParseError"
  /\ UNCHANGED <<models, tmp_pos, tmp_normal, tmp_faces, name>>

LineVt == Recs < MaxRecs /\ \E words \in VtWords(Counts[2]) : LineVtWith(words)

\* Some("vn") followed by words
LineVnWith(words) ==
  /\ result = "running"
  /\ LET r == parse_floatn(words, tmp_normal, 3) IN
       /\ tmp_normal' = r.vals
       /\ result' = IF r.ok THEN "running" ELSE "NormalParseError"
  /\ UNCHANGED <<models, tmp_pos, tmp_texcoord, tmp_faces, name>>

LineVn == Recs < MaxRecs /\ \E words \in VnWords(Counts[3]) : LineVnWith(words)

\* Some("f") followed by words
LineFWith(words) ==
  /\ result = "running"
  /\ LET r == parse_face(words, tmp_faces, Counts[1], Counts[2], Counts[3]) IN
       /\ tmp_faces' = r.faces
       /\ result' = CASE r.st = "ok" -> "running"
                      [] r.st = "fail" -> "FaceParseError"
                      [] r.st = "panic" -> "panic in VertexIndices::parse"
  /\ UNCHANGED <<models, tmp_pos, tmp_texcoord, tmp_normal, name>>

LineF == Recs < MaxRecs /\ \E words \in FWords : LineFWith(words)

\* Some("o") followed by words, the object boundary: what it does to the models,
\* the pending faces, the name and the result; e is what export_faces makes of
\* the pending faces
CloseObject(words, e) ==
  /\ result = "running"
  /\ LET closes == name # "" /\ tmp_faces # <<>>
     IN  IF closes /\ e.panic
         THEN /\ result' = "panic in add_vertex"
              /\ UNCHANGED <<models, tmp_faces, name>>
         ELSE /\ models' = IF closes
                           THEN Append(models, Model_new(e.mesh, name, ExportHist(e)))
                           ELSE models
              /\ tmp_faces' = IF closes THEN <<>> ELSE tmp_faces
              /\ IF words # <<>>
                 THEN name' = Head(words) /\ result' = "running"
                 ELSE name' = name /\ result' = "InvalidObjectName"

\* a boundary that also starts the raw buffers afresh
ObjectBoundary_reset(words, e) ==
  /\ CloseObject(words, e)
  /\ tmp_pos' = <<>> /\ tmp_texcoord' = <<>> /\ tmp_normal' = <<>>

\* the whole arm: the raw buffers are not touched
ObjectBoundary(words, e) ==
  /\ CloseObject(words, e)
  /\ UNCHANGED <<tmp_pos, tmp_texcoord, tmp_normal>>

\* checks: whether the build has overflow checks
LineOWith(words, checks) ==
  ObjectBoundary(words, export_faces(tmp_pos, tmp_texcoord, tmp_normal, tmp_faces, checks))

LineO ==
  \E checks \in BOOLEAN :
     LET e == export_faces(tmp_pos, tmp_texcoord, tmp_normal, tmp_faces, checks)
     IN  \E words \in OWords : ObjectBoundary(words, e)

\* the end of the lines: the last object, then Ok(models)
EndOfInputWith(checks) ==
  /\ result = "running"
  /\ LET e == export_faces(tmp_pos, tmp_texcoord, tmp_normal, tmp_faces, checks) IN
       IF name # ""
       THEN IF e.panic
            THEN result' = "panic in add_vertex" /\ models' = models
            ELSE /\ models' = Append(models, Model_new(e.mesh, name, ExportHist(e)))
                 /\ result' = "Ok"
       ELSE result' = "Ok" /\ models' = models
  /\ UNCHANGED <<tmp_pos, tmp_texcoord, tmp_normal, tmp_faces, name>>

EndOfInput == \E checks \in BOOLEAN : EndOfInputWith(checks)

Next ==
  \/ LineComment
  \/ LineV
  \/ LineVt
  \/ LineVn
  \/ LineF
  \/ LineO
  \/ LineG
  \/ LineMtllib
  \/ LineUsemtl
  \/ LineOther
  \/ LineReadError
  \/ EndOfInput

Spec == Init /\ [][Next]_vars

(* ===================================================================== *)
(* Claims                                                                *)
(* ===================================================================== *)
RECURSIVE SeqToSet(_)
SeqToSet(q) == IF q = <<>> THEN {} ELSE {Head(q)} \cup SeqToSet(Tail(q))

RECURSIVE ModelFaces(_)
ModelFaces(ms) == IF ms = <<>> THEN {} ELSE SeqToSet(Head(ms).faces) \cup ModelFaces(Tail(ms))

\* every face the loader has accepted: the pending ones and the exported ones
AllFaces == SeqToSet(tmp_faces) \cup ModelFaces(models)
Models == SeqToSet(models)

\* field c (1 = v, 2 = vt, 3 = vn) of a face word is present
Present(word, c) == c <= Len(word) /\ word[c].k = "int"
\* the index a present field n denotes, given count elements: n - 1, or n + count
Denotes(n, count) == IF n > 0 THEN n - 1 ELSE n + count
InRange(n, count) == n # 0 /\ 0 <= Denotes(n, count) /\ Denotes(n, count) <= count - 1
Component(vi, c) == IF c = 1 THEN vi.v ELSE IF c = 2 THEN vi.vt ELSE vi.vn

FaceInRange(f) ==
  \A i \in 1..Len(f.src), c \in 1..3 :
     Present(f.src[i], c) => InRange(f.src[i][c].x, f.cnt[c])

\* the add_vertex calls of an export of faces, in order
RECURSIVE Calls(_)
Calls(faces) == IF faces = <<>> THEN <<>> ELSE FaceVerts(Head(faces)) \o Calls(Tail(faces))

NumVerts(mesh) == Len(mesh.positions) \div 3

(* C1: a face record with a present field that denotes an index outside
   0..count-1 of its buffer (0, a value beyond the count, a negative value
   beyond the count) makes the load return FaceParseError, so such a face is
   never accepted and no export reads a raw buffer out of range (no panic).
   The code has no such check: this is the claim as stated, and it fails. *)
C1_OutOfRangeFaceRejected ==
  /\ \A f \in AllFaces : FaceInRange(f)
  /\ \A checks \in BOOLEAN :
        ~export_faces(tmp_pos, tmp_texcoord, tmp_normal, tmp_faces, checks).panic

(* C2: every Model of a successful load has positions, normals and indices of
   a length divisible by 3, texcoords of a length divisible by 2, and every
   index below positions.len() / 3. *)
C2_MeshInvariant ==
  result = "Ok" =>
    \A m \in Models :
       /\ Len(m.mesh.positions) % 3 = 0
       /\ Len(m.mesh.texcoords) % 2 = 0
       /\ Len(m.mesh.normals) % 3 = 0
       /\ Len(m.mesh.indices) % 3 = 0
       /\ \A j \in 1..Len(m.mesh.indices) :
             m.mesh.indices[j] >= 0 /\ m.mesh.indices[j] < NumVerts(m.mesh)

\* a successful load with a mesh that has vertices, texcoords and normals
C2_Witness ==
  /\ result = "Ok"
  /\ \E m \in Models :
        m.mesh.indices # <<>> /\ m.mesh.texcoords # <<>> /\ m.mesh.normals # <<>>

\* idx gives the calls their indices as deduplication by first appearance does
Dedups(calls, idx) ==
  /\ \A i, j \in 1..Len(idx) : (idx[i] = idx[j]) <=> (calls[i] = calls[j])
  /\ \A i \in 1..Len(idx) :
        (\A j \in 1..(i - 1) : calls[j] # calls[i])
          => idx[i] = Cardinality({calls[j] : j \in 1..(i - 1)})

(* C3: within one export, two face-vertices get the same output index iff
   their (v, vt, vn) triples are equal; the k-th distinct triple gets index
   k-1, so the mesh has as many vertices as there are distinct triples; every
   export starts from an empty mapping, so this holds of each Model by itself.
   Checked of every Model and of what an export of the pending faces assigns
   (up to its panic, if it panics). *)
C3_Deduplication ==
  /\ \A m \in Models :
        /\ Len(m.mesh.indices) = Len(Calls(m.faces))
        /\ Dedups(Calls(m.faces), m.mesh.indices)
        /\ NumVerts(m.mesh) = Cardinality(SeqToSet(Calls(m.faces)))
  /\ \A checks \in BOOLEAN :
        LET e == export_faces(tmp_pos, tmp_texcoord, tmp_normal, tmp_faces, checks)
        IN  /\ Len(e.mesh.indices) <= Len(Calls(tmp_faces))
            /\ Dedups(Calls(tmp_faces), e.mesh.indices)
            /\ ~e.panic => /\ Len(e.mesh.indices) = Len(Calls(tmp_faces))
                           /\ NumVerts(e.mesh) = Cardinality(SeqToSet(Calls(tmp_faces)))

\* two Models that each reuse a vertex, each numbered from 0, with a triple in common
C3_Witness ==
  /\ Len(models) >= 2
  /\ models[1].mesh.indices = <<0, 1, 0>>
  /\ models[2].mesh.indices = <<0, 1, 0>>
  /\ SeqToSet(Calls(models[1].faces)) \cap SeqToSet(Calls(models[2].faces)) # {}

\* the indices of faces: (a, b, c) per triangle, (a, b, c), (a, c, d) per quad,
\* a face being a quad when its record has four words
RECURSIVE Layout(_, _)
Layout(faces, map) ==
  IF faces = <<>> THEN <<>>
  ELSE LET f == Head(faces)
           a == map[f.vs[1]]
           b == map[f.vs[2]]
           c == map[f.vs[3]]
       IN  (IF Len(f.src) = 4 THEN <<a, b, c, a, c, map[f.vs[4]]>> ELSE <<a, b, c>>)
             \o Layout(Tail(faces), map)

Quads(faces) == Cardinality({i \in 1..Len(faces) : Len(faces[i].src) = 4})
Triangles(faces) == Cardinality({i \in 1..Len(faces) : Len(faces[i].src) = 3})

(* C4: in the index buffer of an exported mesh every quad (a, b, c, d) stands as
   the six output indices of a, b, c, a, c, d and every triangle as the three of
   a, b, c, the faces in source order: 3*T + 6*Q indices in all. *)
C4_Triangulation ==
  \A m \in Models :
     /\ m.mesh.indices = Layout(m.faces, m.index_map)
     /\ Len(m.mesh.indices) = 3 * Triangles(m.faces) + 6 * Quads(m.faces)

\* a mesh of a quad with four distinct vertices and a triangle
C4_Witness ==
  \E m \in Models :
     /\ Len(m.faces) = 2
     /\ Quads(m.faces) = 1 /\ Triangles(m.faces) = 1
     /\ \E f \in SeqToSet(m.faces) : Cardinality(SeqToSet(f.vs)) = 4

LastModel(ms) == ms[Len(ms)]
\* ms2 is ms with one Model appended
AppendsOne(ms, ms2) == Len(ms2) = Len(ms) + 1 /\ SubSeq(ms2, 1, Len(ms)) = ms

(* C5: an "o" record with a name after it appends exactly one Model, with the
   previous name and built from the pending faces, and empties the pending
   faces, when a name is set and faces are pending; otherwise it appends no
   Model and leaves the pending faces alone; either way the name becomes the
   new word.  This is the claim as stated: it fails where the export panics. *)
C5_ObjectBoundaryExports ==
  [][\A words \in OWords \ {<<>>}, checks \in BOOLEAN :
        LineOWith(words, checks) =>
          /\ IF name # "" /\ tmp_faces # <<>>
             THEN /\ AppendsOne(models, models')
                  /\ LastModel(models').name = name
                  /\ LastModel(models').faces = tmp_faces
                  /\ tmp_faces' = <<>>
             ELSE models' = models /\ tmp_faces' = tmp_faces
          /\ name' = Head(words)]_vars

(* C6: at the end of the input, no error so far: with a name set, exactly one
   final Model of that name is appended, built from the pending faces (an empty
   mesh when there are none); with no name set (as when no "o" record ever
   came) the load succeeds and appends nothing, dropping the pending faces.
   This is the claim as stated: it fails where the export panics. *)
C6_EndOfInputExports ==
  [][\A checks \in BOOLEAN :
        EndOfInputWith(checks) =>
          /\ result' = "Ok"
          /\ IF name # ""
             THEN /\ AppendsOne(models, models')
                  /\ LastModel(models').name = name
                  /\ LastModel(models').faces = tmp_faces
                  /\ tmp_faces = <<>> => LastModel(models').mesh = Mesh_empty
             ELSE models' = models]_vars

\* a v / vt / vn record that does not hold exactly n floats
MalformedFloats(words, n) ==
  \/ \E i \in 1..Len(words) : words[i].t = "bad"
  \/ Cardinality({i \in 1..Len(words) : words[i].t = "num"}) # n

\* an f record that does not hold 3 or 4 face-vertices, or holds a field that is
\* no integer (the empty item between two blanks is no face-vertex)
MalformedFace(words) ==
  \/ Cardinality({i \in 1..Len(words) : words[i] # <<E>>}) \notin {3, 4}
  \/ \E i \in 1..Len(words) : \E c \in 1..Len(words[i]) : words[i][c].k = "bad"

(* C7: a malformed record aborts the load with the error of its kind: v gives
   PositionParseError, vt TexcoordParseError, vn NormalParseError, f
   FaceParseError, "o" without a name InvalidObjectName; nothing is processed
   after it.  This is the claim as stated: it fails on an f record that holds
   an empty item. *)
C7_MalformedRecordAborts ==
  [][/\ \A w \in VWords(Counts[1]) :
          LineVWith(w) /\ MalformedFloats(w, 3) => result' = "PositionParseError"
     /\ \A w \in VtWords(Counts[2]) :
          LineVtWith(w) /\ MalformedFloats(w, 2) => result' = "TexcoordParseError"
     /\ \A w \in VnWords(Counts[3]) :
          LineVnWith(w) /\ MalformedFloats(w, 3) => result' = "NormalParseError"
     /\ \A w \in FWords :
          LineFWith(w) /\ MalformedFace(w) => result' = "FaceParseError"
     /\ \A checks \in BOOLEAN :
          LineOWith(<<>>, checks) => result' = "InvalidObjectName"
     /\ result # "running" => UNCHANGED vars]_vars

(* C8: a field -k with 1 <= k <= count is stored as count - k, count being the
   number of elements of its buffer when the face record is read, and a
   positive field n as n - 1; what is appended afterwards changes nothing: the
   exported vertex carries the position that stood at that index. *)
C8_RelativeIndex ==
  /\ \A f \in AllFaces :
        \A i \in 1..Len(f.src), c \in 1..3 :
           Present(f.src[i], c) =>
             LET n == f.src[i][c].x IN
             /\ (n < 0 /\ -n <= f.cnt[c]) => Component(f.vs[i], c) = f.cnt[c] + n
             /\ n > 0 => Component(f.vs[i], c) = n - 1
  /\ \A m \in Models :
        \A f \in SeqToSet(m.faces) :
           \A i \in 1..Len(f.src) :
              Present(f.src[i], 1) =>
                LET at == Denotes(f.src[i][1].x, f.cnt[1])
                    out == m.index_map[f.vs[i]]
                IN  SubSeq(m.mesh.positions, 3 * out + 1, 3 * out + 3)
                      = SubSeq(tmp_pos, 3 * at + 1, 3 * at + 3)

\* an exported face with a field -1 for the position, read when fewer positions
\* stood in the buffer than at the export
C8_Witness ==
  \E m \in Models :
     \E f \in SeqToSet(m.faces) :
        \E i \in 1..Len(f.src) :
           /\ Present(f.src[i], 1)
           /\ f.src[i][1].x = -1
           /\ f.cnt[1] >= 1
           /\ f.cnt[1] < m.cnt[1]

\* no face-vertex of faces has field c
NoField(faces, c) ==
  \A f \in SeqToSet(faces) : \A i \in 1..Len(f.src) : ~Present(f.src[i], c)

(* C9 as stated: the normals of an exported mesh are empty if no face-vertex of
   the object has a normal field, and 3 per vertex otherwise; likewise the
   texcoords, 2 per vertex. *)
C9_EmptyWithoutObjectFields ==
  \A m \in Models :
     /\ Len(m.mesh.normals) = IF NoField(m.faces, 3) THEN 0 ELSE 3 * NumVerts(m.mesh)
     /\ Len(m.mesh.texcoords) = IF NoField(m.faces, 2) THEN 0 ELSE 2 * NumVerts(m.mesh)

(* C9 amended: the normals of an exported mesh are 3 per vertex if the raw
   normal buffer of the file holds an element when the object is exported, and
   empty otherwise, whatever fields its face-vertices have; likewise the
   texcoords, 2 per vertex; with no vt record so far every mesh has empty
   texcoords. *)
C9_BuffersFollowRawBuffers ==
  /\ \A m \in Models :
        /\ Len(m.mesh.normals) = IF m.cnt[3] > 0 THEN 3 * NumVerts(m.mesh) ELSE 0
        /\ Len(m.mesh.texcoords) = IF m.cnt[2] > 0 THEN 2 * NumVerts(m.mesh) ELSE 0
  /\ tmp_texcoord = <<>> => \A m \in Models : m.mesh.texcoords = <<>>

\* a mesh with normals though no face-vertex of its object has a normal field
C9_Witness ==
  \E m \in Models : NoField(m.faces, 3) /\ m.mesh.normals # <<>>

IsPrefix(a, b) == Len(a) <= Len(b) /\ SubSeq(b, 1, Len(a)) = a

(* C10: the raw buffers only grow: a step changes at most one of them, by
   appending, as a v, vt or vn record does (one element when the record is
   accepted); a step that changes the name, the Models or the pending faces, as
   an "o" record does, leaves all three as they are. *)
C10_RawBuffersOnlyGrow ==
  [][/\ IsPrefix(tmp_pos, tmp_pos')
     /\ IsPrefix(tmp_texcoord, tmp_texcoord')
     /\ IsPrefix(tmp_normal, tmp_normal')
     /\ tmp_pos' # tmp_pos =>
          /\ result' \in {"running", "PositionParseError"}
          /\ result' = "running" => Len(tmp_pos') = Len(tmp_pos) + 3
          /\ UNCHANGED <<tmp_texcoord, tmp_normal>>
     /\ tmp_texcoord' # tmp_texcoord =>
          /\ result' \in {"running", "TexcoordParseError"}
          /\ result' = "running" => Len(tmp_texcoord') = Len(tmp_texcoord) + 2
          /\ UNCHANGED <<tmp_pos, tmp_normal>>
     /\ tmp_normal' # tmp_normal =>
          /\ result' \in {"running", "NormalParseError"}
          /\ result' = "running" => Len(tmp_normal') = Len(tmp_normal) + 3
          /\ UNCHANGED <<tmp_pos, tmp_texcoord>>
     /\ (name' # name \/ models' # models \/ tmp_faces' # tmp_faces) =>
          UNCHANGED <<tmp_pos, tmp_texcoord, tmp_normal>>]_vars

\* past an object boundary, the positions still there and a face of the next
\* object pending that names one by its absolute index
C10_Witness ==
  /\ result = "running"
  /\ models # <<>>
  /\ tmp_pos # <<>>
  /\ \E f \in SeqToSet(tmp_faces) :
        Present(f.src[1], 1) /\ f.src[1][1].x > 0 /\ FaceInRange(f)

====
